---- MODULE Spec2Model ----
(***************************************************************************)
(* KeeLoq code word decoder (pd.py): the preamble / header / data state    *)
(* machine of Decoder.decode and the assembly of the 66 data bits into the *)
(* fields of the code word.                                                *)
(*                                                                         *)
(* Conventions.                                                            *)
(*  - A Python string is a sequence of pieces (TLA+ strings); the empty    *)
(*    string is << >> and "+" is \o.  Strings whose characters matter      *)
(*    (BitString, the hexadecimal output, str(TEcnt)) have one character   *)
(*    per piece.                                                           *)
(*  - A duration t is a whole number of microseconds: the edge source      *)
(*    delivers sample deltas and the sample rate is 1 MHz.                 *)
(*  - A sample index is written relative to self.samplenum, the sample of  *)
(*    the latest edge wait() returned: [edge |-> -k, plus |-> p] is the    *)
(*    sample of the k-th edge before it, plus p samples.  Every sample     *)
(*    index the decoder holds is that of an edge, or of an edge plus 8,    *)
(*    and wait() only moves forward, so this keeps their order; when       *)
(*    wait() returns, every index held moves one edge back.                *)
(*  - A Python int is a little-endian sequence of base-16 digits without   *)
(*    leading zero digits (<< >> is 0), so that it is unbounded.           *)
(***************************************************************************)
EXTENDS Integers, Sequences, FiniteSets, TLC

VARIABLES
    pc,                 \* position of decode(): "start", "error", "rising", "edge", "half"
    samplerate,         \* self.samplerate (None until metadata() delivers it)
    TEcnt,              \* self.TEcnt
    Block_Init,         \* self.Block_Init
    Header_Completed,   \* self.Header_Completed
    Bitcnt,             \* self.Bitcnt
    BitString,          \* self.BitString
    KeyLoq,             \* self.KeyLoq
    ssBlock,            \* self.ssBlock
    n,                  \* self.n
    prevN,              \* self.prevN
    t,                  \* decode()'s local t, in microseconds
    out,                \* the annotations put() emitted during the last step
    word,               \* edge source: index in Words of the code word being transmitted (1 in a preamble)
    attempt,            \* history: pulses of the current preamble attempt and the variants they all fit
    ended,              \* history: data portions ended since reset() (0, 1, or 2 for more)
    marked,             \* history: the current preamble attempt has emitted "Preamble"
    consumed,           \* history: edges wait() returned in the data portion, since its header edge
    t2,                 \* history: the duration of the second half the last step waited for, or 0
    last                \* history: per annotation row, the start of the last annotation emitted

vars == << pc, samplerate, TEcnt, Block_Init, Header_Completed, Bitcnt,
           BitString, KeyLoq, ssBlock, n, prevN, t, out, word, attempt, ended,
           marked, consumed, t2, last >>

\* None: samplerate is << >> when it is None and << rate >> when it is set
None == << >>

\* ------------------------------------------------------------------ bounds

\* In-window preamble pulses are offered only while TEcnt is below this.
MaxTE == 47

\* Longest bit string of the exhaustive part of the Bin2Hex inputs.
MaxBits == 6

\* An edge that leaves the decoder idle (no pulse counted before or after it) is
\* offered only while the block start is less than this many edges back.
MaxBack == 50

\* The history of annotation starts tells the edges up to this many back apart.
FarBack == 2

\* ------------------------------------------------------- program constants

SampleRate == 1000000

Ann == [TE |-> 0, LOGICAL_BIT |-> 1, CODE_WORD |-> 2, ENCRYP_DATA |-> 3, FIXED_DATA |-> 4]

\* self.TE_Timing, in microseconds, indexed from 0 as in the source
TE_Timing == [i \in 0..5 |-> CASE i = 0 -> 280 [] i = 1 -> 580 [] i = 2 -> 700
                               [] i = 3 -> 1000 [] i = 4 -> 3000 [] i = 5 -> 6000]

\* the samples added to samplenum for the end of the last bit
LastBitPad == 8

PREAMBLE_TE_Count_Std == 23

PREAMBLE_TE_Count_Short == 45

\* self.PREAMBLE_TE_Timing_Short: half of the standard window
PREAMBLE_TE_Timing_Short == [i \in 0..1 |-> TE_Timing[i] \div 2]

\* width of the "{:07X}" format of Bin2Hex
HexWidth == 7

\* the reset value of self.KeyLoq
KeyLoq0 == [k \in {"Encrypted", "Serial-Number", "S3", "S0", "S1", "S2", "V-Low", "RPT"} |-> << >>]

\* ------------------------------------------------------------ Bin2Hex

HexDigit == << "0", "1", "2", "3", "4", "5", "6", "7",
               "8", "9", "A", "B", "C", "D", "E", "F" >>

RECURSIVE Reverse(_)
Reverse(s) == IF s = << >> THEN << >> ELSE Append(Reverse(Tail(s)), Head(s))

RECURSIVE Zeros(_)
Zeros(k) == IF k <= 0 THEN << >> ELSE << "0" >> \o Zeros(k - 1)

\* 2 * v + c on a Python int v (little-endian base-16 digits), c in 0..1
RECURSIVE Twice(_, _)
Twice(v, c) ==
    IF v = << >> THEN (IF c = 0 THEN << >> ELSE << c >>)
    ELSE LET d == 2 * Head(v) + c
         IN  << d % 16 >> \o Twice(Tail(v), d \div 16)

\* int(s, 2) for a non-empty string s of "0" and "1": most significant digit first
RECURSIVE IntBase2(_, _)
IntBase2(s, acc) ==
    IF s = << >> THEN acc
    ELSE IntBase2(Tail(s), Twice(acc, IF Head(s) = "1" THEN 1 ELSE 0))

\* mutant of FormatX: the digits are cut to width
FormatX_Truncating(v, width) ==
    LET digits == IF v = << >> THEN << "0" >>
                  ELSE [i \in 1..Len(v) |-> HexDigit[Reverse(v)[i] + 1]]
        padded == Zeros(width - Len(digits)) \o digits
    IN  SubSeq(padded, Len(padded) - width + 1, Len(padded))

\* "{0:0{1}X}".format(v, width): upper-case hex digits of v, at least one,
\* left-padded with zeros to width, never cut
FormatX(v, width) ==
    LET digits == IF v = << >> THEN << "0" >>
                  ELSE [i \in 1..Len(v) |-> HexDigit[Reverse(v)[i] + 1]]
    IN  Zeros(width - Len(digits)) \o digits

Bin2Hex(bits) == << "0", "x" >> \o FormatX(IntBase2(bits, << >>), HexWidth)

\* str(n) for n >= 0: decimal digits, one per piece
RECURSIVE Str(_)
Str(k) == IF k < 10 THEN << HexDigit[k + 1] >> ELSE Str(k \div 10) \o << HexDigit[(k % 10) + 1] >>

\* ------------------------------------------------------------ edge source

\* Code words the transmitter sends: bit i of the data portion, i in 0..65.
\* Word 1 is the end-to-end scenario; word 2 has another encrypted portion,
\* another serial number and the repeat bit set.
Words == <<
    [i \in 0..65 |-> CASE i <= 31 -> (IF i % 2 = 0 THEN 1 ELSE 0)
                       [] i >= 32 /\ i <= 59 -> 0
                       [] i = 60 -> 1 [] i = 61 -> 0 [] i = 62 -> 1 [] i = 63 -> 0
                       [] i = 64 -> 1 [] i = 65 -> 0],
    [i \in 0..65 |-> CASE i <= 31 -> (IF i = 0 THEN 1 ELSE 0)
                       [] i >= 32 /\ i <= 59 -> 1
                       [] i = 60 -> 1 [] i = 61 -> 0 [] i = 62 -> 1 [] i = 63 -> 0
                       [] i = 64 -> 1 [] i = 65 -> 1] >>

\* Durations (microseconds) the source produces between two edges: the ends of
\* the windows and their nearest neighbours outside.
ShortTE == 140      \* first of the short window: a short preamble pulse only
BothTE == 290       \* last of the short window, and in the standard window
StdTE == 580        \* last of the standard window: standard pulse, first half of a bit 1
LongTE == 700       \* first of the bit 0 window: first half of a bit 0
HeaderGap == 6000   \* last of the header window
Glitch == 139       \* in no window: shorter than every pulse
Pause == 2999       \* in no window: between the bit 0 and the header window

\* the first half of bit b
BitDuration(b) == IF b = 1 THEN StdTE ELSE LongTE

PreambleDurations == { ShortTE, BothTE, StdTE }

\* what the source may deliver while the decoder looks for preamble and header
AnyDurations == PreambleDurations \cup { LongTE, HeaderGap, Glitch, Pause }

\* what the source may deliver in place of the first half of a bit
CorruptDurations == { Glitch, HeaderGap }

\* what the source may deliver as the second half of a bit: the complement of
\* either first half, or a glitch
SecondHalfDurations == { StdTE, LongTE, Glitch }

\* ------------------------------------------------------------ the decoder

\* a sample index: plus samples after the edge that is -edge edges before the latest
Sample(edge, plus) == [edge |-> edge, plus |-> plus]

\* self.samplenum: the sample of the latest edge
samplenum == Sample(0, 0)

\* The fields of self that the handlers read and write, with the annotations
\* emitted so far in the current step.
Self == [ TEcnt |-> TEcnt, Block_Init |-> Block_Init,
          Header_Completed |-> Header_Completed, Bitcnt |-> Bitcnt,
          BitString |-> BitString, KeyLoq |-> KeyLoq,
          ssBlock |-> ssBlock, n |-> n, prevN |-> prevN, out |-> << >> ]

\* self.wait(self.trig_cond) returns: samplenum is the sample of the new edge, and
\* the samples self holds are one edge further back
Wait(s) == [s EXCEPT !.ssBlock.edge = @ - 1, !.n.edge = @ - 1, !.prevN.edge = @ - 1]

\* the value of self.<name> when put() is called
At(s, name) ==
    CASE name = "samplenum" -> samplenum
      [] name = "prevN" -> s.prevN
      [] name = "n" -> s.n
      [] name = "ssBlock" -> s.ssBlock

\* self.put(self.<ss>, self.<es>, self.out_ann, [ann, [text]])
Put(s, ss, es, ann, text) ==
    [s EXCEPT !.out = Append(@, [ss |-> At(s, ss), es |-> At(s, es),
                                 ann |-> ann, text |-> text])]

Start_Block(s) ==
    IF s.Block_Init = 0 THEN [s EXCEPT !.Block_Init = 1, !.ssBlock = s.prevN] ELSE s

Reset_DP_Cnts(s) == [s EXCEPT !.Block_Init = 0, !.BitString = << >>]

in_short_te(tt) == tt >= PREAMBLE_TE_Timing_Short[0] /\ tt <= PREAMBLE_TE_Timing_Short[1]

in_std_te(tt) == tt >= TE_Timing[0] /\ tt <= TE_Timing[1]

in_bit0(tt) == tt >= TE_Timing[2] /\ tt <= TE_Timing[3]

in_header(tt) == tt >= TE_Timing[4] /\ tt <= TE_Timing[5]

\* mutant of HeaderCount: the counter is compared before the gap is counted
HeaderCount_OffByOne(k) == k = PREAMBLE_TE_Count_Std \/ k = PREAMBLE_TE_Count_Short

\* the condition of the header branch on the counter
HeaderCount(k) == k = PREAMBLE_TE_Count_Std + 1 \/ k = PREAMBLE_TE_Count_Short + 1

\* mutant of PreambleReset: the pulse counter is left as it is
PreambleReset_KeepsCount(s) == [s EXCEPT !.Block_Init = 0]

\* the branch of Decode_Preable that ends a preamble attempt without a header
PreambleReset(s) == [s EXCEPT !.TEcnt = 0, !.Block_Init = 0]

\* Decode_Preable(t); s.TEcnt has been incremented by decode()
Decode_Preable(s, tt) ==
    IF in_short_te(tt) \/ in_std_te(tt)
    THEN LET te == Start_Block(Put(s, "prevN", "samplenum", Ann.TE, Str(s.TEcnt)))
             s1 == IF in_short_te(tt) /\ s.TEcnt < PREAMBLE_TE_Count_Short THEN te
                   ELSE IF in_std_te(tt) /\ s.TEcnt < PREAMBLE_TE_Count_Std THEN te
                   ELSE s
         IN  IF \/ in_short_te(tt) /\ s.TEcnt = PREAMBLE_TE_Count_Short
                \/ in_std_te(tt) /\ s.TEcnt = PREAMBLE_TE_Count_Std
             THEN Put(Put(s1, "ssBlock", "n", Ann.CODE_WORD, << "Preamble" >>),
                      "prevN", "samplenum", 0, Str(s.TEcnt))
             ELSE s1
    ELSE IF in_header(tt) /\ HeaderCount(s.TEcnt)
    THEN [Put(s, "prevN", "n", Ann.CODE_WORD, << "Header" >>)
            EXCEPT !.TEcnt = 0, !.Block_Init = 0, !.Header_Completed = 1]
    ELSE PreambleReset(s)

\* Decode_LogicalBit: the timing check
Valid_Bit(tt) == in_std_te(tt) \/ in_bit0(tt)

\* mutant of LogicalBit: the two PWM symbols are taken for each other
LogicalBit_Swapped(tt) == IF in_std_te(tt) THEN << "0" >> ELSE << "1" >>

\* Decode_LogicalBit: the value of a valid bit
LogicalBit(tt) == IF in_std_te(tt) THEN << "1" >> ELSE << "0" >>

\* mutant of LastBitEnd: the last bit ends at the current edge
LastBitEnd_NoPad(s) == [s EXCEPT !.n = samplenum]

\* Decode_LogicalBit, valid timing, Bitcnt = 65: no further edge is awaited
LastBitEnd(s) == [s EXCEPT !.n = [samplenum EXCEPT !.plus = @ + LastBitPad]]

\* mutant of SecondHalf: the second half is taken only when it lasts as long as
\* the first half of some bit, and is an invalid bit otherwise
SecondHalf_Validated(s, tt2) ==
    IF in_std_te(tt2) \/ in_bit0(tt2)
    THEN [Wait(s) EXCEPT !.n = samplenum]
    ELSE [Wait(s) EXCEPT !.n = samplenum, !.Header_Completed = 0, !.Bitcnt = -1]

\* Decode_LogicalBit, valid timing, Bitcnt < 65: the wait for the edge that ends
\* the bit, which arrives tt2 after the first half; nothing reads tt2
SecondHalf(s, tt2) == [Wait(s) EXCEPT !.n = samplenum]

\* Decode_LogicalBit, valid timing, after the end of the bit is known
LogicalBit_Valid(s, tt) ==
    Put(s, "prevN", "n", Ann.LOGICAL_BIT, << "Bit " >> \o LogicalBit(tt))

\* mutant of LogicalBit_Invalid: Bitcnt is left as it is
LogicalBit_Invalid_KeepsBitcnt(s) ==
    [Reset_DP_Cnts(Put(s, "prevN", "n", Ann.LOGICAL_BIT, << ">>> Invalid Bit <<< " >>))
        EXCEPT !.Header_Completed = 0]

\* Decode_LogicalBit, invalid timing (it returns "0")
LogicalBit_Invalid(s) ==
    [Reset_DP_Cnts(Put(s, "prevN", "n", Ann.LOGICAL_BIT, << ">>> Invalid Bit <<< " >>))
        EXCEPT !.Header_Completed = 0, !.Bitcnt = -1]

\* Decode_DataPortion, bits 0-31, from the return of Decode_LogicalBit on:
\* s is self after that call and lb the value it returned
EncryptedPortion(s, lb) ==
    LET s1 == [s EXCEPT !.BitString = lb \o @]
    IN  IF s1.Bitcnt = 31
        THEN LET a == Put(s1, "ssBlock", "n", Ann.CODE_WORD, << "Encrypted Portion" >>)
                 b == [a EXCEPT !.KeyLoq["Encrypted"] = Bin2Hex(a.BitString)]
             IN  Reset_DP_Cnts(Put(b, "ssBlock", "n", Ann.ENCRYP_DATA, b.KeyLoq["Encrypted"]))
        ELSE s1

\* Decode_DataPortion, bits 32-59
SerialNumber(s, lb) ==
    LET s1 == [s EXCEPT !.BitString = lb \o @]
    IN  IF s1.Bitcnt = 59
        THEN LET a == Put(s1, "ssBlock", "n", Ann.CODE_WORD, << "Serial Number" >>)
                 b == [a EXCEPT !.KeyLoq["Serial-Number"] = Bin2Hex(a.BitString)]
             IN  Reset_DP_Cnts(Put(b, "ssBlock", "n", Ann.FIXED_DATA, b.KeyLoq["Serial-Number"]))
        ELSE s1

\* mutant of ButtonCode: bits 61 and 62 go to S1 and S0
ButtonCode_Swapped(s, lb) ==
    IF s.Bitcnt = 60
    THEN Put([s EXCEPT !.KeyLoq["S3"] = lb], "prevN", "n", Ann.FIXED_DATA, << "S3 = " >> \o lb)
    ELSE IF s.Bitcnt = 61
    THEN Put([s EXCEPT !.KeyLoq["S1"] = lb], "prevN", "n", Ann.FIXED_DATA, << "S1 = " >> \o lb)
    ELSE IF s.Bitcnt = 62
    THEN Put([s EXCEPT !.KeyLoq["S0"] = lb], "prevN", "n", Ann.FIXED_DATA, << "S0 = " >> \o lb)
    ELSE IF s.Bitcnt = 63
    THEN Reset_DP_Cnts(
            Put(Put([s EXCEPT !.KeyLoq["S2"] = lb],
                    "ssBlock", "n", Ann.CODE_WORD, << "Button Code" >>),
                "prevN", "n", Ann.FIXED_DATA, << "S2 = " >> \o lb))
    ELSE s

\* mutant of ButtonCode: the S2 annotation starts at the block start
ButtonCode_S2AtBlockStart(s, lb) ==
    IF s.Bitcnt = 60
    THEN Put([s EXCEPT !.KeyLoq["S3"] = lb], "prevN", "n", Ann.FIXED_DATA, << "S3 = " >> \o lb)
    ELSE IF s.Bitcnt = 61
    THEN Put([s EXCEPT !.KeyLoq["S0"] = lb], "prevN", "n", Ann.FIXED_DATA, << "S0 = " >> \o lb)
    ELSE IF s.Bitcnt = 62
    THEN Put([s EXCEPT !.KeyLoq["S1"] = lb], "prevN", "n", Ann.FIXED_DATA, << "S1 = " >> \o lb)
    ELSE IF s.Bitcnt = 63
    THEN Reset_DP_Cnts(
            Put(Put([s EXCEPT !.KeyLoq["S2"] = lb],
                    "ssBlock", "n", Ann.CODE_WORD, << "Button Code" >>),
                "ssBlock", "n", Ann.FIXED_DATA, << "S2 = " >> \o lb))
    ELSE s

\* Decode_DataPortion, bits 60-63
ButtonCode(s, lb) ==
    IF s.Bitcnt = 60
    THEN Put([s EXCEPT !.KeyLoq["S3"] = lb], "prevN", "n", Ann.FIXED_DATA, << "S3 = " >> \o lb)
    ELSE IF s.Bitcnt = 61
    THEN Put([s EXCEPT !.KeyLoq["S0"] = lb], "prevN", "n", Ann.FIXED_DATA, << "S0 = " >> \o lb)
    ELSE IF s.Bitcnt = 62
    THEN Put([s EXCEPT !.KeyLoq["S1"] = lb], "prevN", "n", Ann.FIXED_DATA, << "S1 = " >> \o lb)
    ELSE IF s.Bitcnt = 63
    THEN Reset_DP_Cnts(
            Put(Put([s EXCEPT !.KeyLoq["S2"] = lb],
                    "ssBlock", "n", Ann.CODE_WORD, << "Button Code" >>),
                "prevN", "n", Ann.FIXED_DATA, << "S2 = " >> \o lb))
    ELSE s

\* Decode_DataPortion, bit 64
VLow(s, lb) ==
    LET a == Put(s, "ssBlock", "n", Ann.CODE_WORD, << "V-Low" >>)
        b == [a EXCEPT !.KeyLoq["V-Low"] =
                  IF lb = << "0" >> THEN << "Battery High" >> ELSE << "Battery Low" >>]
    IN  Reset_DP_Cnts(Put(b, "prevN", "n", Ann.FIXED_DATA, b.KeyLoq["V-Low"]))

\* mutant of Rpt: Bitcnt is set to 0, and the loop then adds 1
Rpt_BitcntZero(s, lb) ==
    LET a == Put(s, "ssBlock", "n", Ann.CODE_WORD, << "RPT" >>)
        b == [a EXCEPT !.KeyLoq["RPT"] = IF lb = << "0" >> THEN << "No" >> ELSE << "Yes" >>]
    IN  [Reset_DP_Cnts(Put(b, "prevN", "n", Ann.FIXED_DATA, b.KeyLoq["RPT"]))
            EXCEPT !.Header_Completed = 0, !.Bitcnt = 0]

\* Decode_DataPortion, bit 65
Rpt(s, lb) ==
    LET a == Put(s, "ssBlock", "n", Ann.CODE_WORD, << "RPT" >>)
        b == [a EXCEPT !.KeyLoq["RPT"] = IF lb = << "0" >> THEN << "No" >> ELSE << "Yes" >>]
    IN  [Reset_DP_Cnts(Put(b, "prevN", "n", Ann.FIXED_DATA, b.KeyLoq["RPT"]))
            EXCEPT !.Header_Completed = 0, !.Bitcnt = -1]

\* Decode_DataPortion(t) from the return of Decode_LogicalBit on; entry is the
\* value of Bitcnt at the call, which chooses the branch
Decode_DataPortion(s, entry, lb) ==
    IF entry <= 31 THEN EncryptedPortion(s, lb)
    ELSE IF entry >= 32 /\ entry <= 59 THEN SerialNumber(s, lb)
    ELSE IF entry >= 60 /\ entry <= 63 THEN ButtonCode(s, lb)
    ELSE IF entry = 64 THEN VLow(s, lb)
    ELSE IF entry = 65 THEN Rpt(s, lb)
    ELSE s

\* t = (self.n - self.prevN) / self.samplerate for a delta of d samples, in microseconds
Duration(d) == d \div (samplerate[1] \div 1000000)

\* ------------------------------------------------------------ history

Variants == { "short", "std" }

Fits(tt) == { v \in Variants : (v = "short" /\ in_short_te(tt)) \/ (v = "std" /\ in_std_te(tt)) }

Attempt0 == [pulses |-> 0, fits |-> Variants]

Ended(k) == IF k < 2 THEN k + 1 ELSE 2

\* the annotation rows of the decoder
Rows == { "bits", "code word", "data" }

Row(ann) ==
    IF ann \in { Ann.TE, Ann.LOGICAL_BIT } THEN "bits"
    ELSE IF ann = Ann.CODE_WORD THEN "code word"
    ELSE "data"

\* the annotations of row r among the annotations o
OfRow(o, r) == SelectSeq(o, LAMBDA a : Row(a.ann) = r)

\* Before any annotation: nothing is known to start after the oldest start that
\* is told apart.
Last0 == [r \in Rows |-> IF r = "bits" THEN -FarBack ELSE -1]

\* The edge at which the last annotation of each row starts, after a step that
\* waited for one edge, emitted o and left the block start at sb.  A start is told
\* apart down to the edge before the block start, and in the row of the TE and bit
\* annotations (which start at prevN) down to FarBack edges back; an older start
\* is recorded as that edge.
LastStart(ls, o, sb) ==
    [r \in Rows |->
        LET mine == OfRow(o, r)
            edge == IF mine # << >> THEN mine[Len(mine)].ss.edge ELSE ls[r] - 1
            floor == IF r = "bits" THEN -FarBack ELSE sb.edge - 1
        IN  IF edge >= floor THEN edge ELSE floor]

\* ------------------------------------------------------------ actions

Init ==
    /\ pc = "start"
    /\ samplerate = None
    /\ TEcnt = 0
    /\ Block_Init = 0
    /\ Header_Completed = 0
    /\ Bitcnt = 0
    /\ BitString = << >>
    /\ KeyLoq = KeyLoq0
    /\ ssBlock = Sample(0, 0)
    /\ n = Sample(0, 0)
    /\ prevN = Sample(0, 0)
    /\ t = 0
    /\ out = << >>
    /\ word = 1
    /\ attempt = Attempt0
    /\ ended = 0
    /\ marked = FALSE
    /\ consumed = 0
    /\ t2 = 0
    /\ last = Last0

\* metadata(SRD_CONF_SAMPLERATE, value)
Metadata ==
    /\ pc = "start"
    /\ samplerate = None
    /\ samplerate' = << SampleRate >>
    /\ UNCHANGED << pc, TEcnt, Block_Init, Header_Completed, Bitcnt, BitString,
                    KeyLoq, ssBlock, n, prevN, t, out, word, attempt, ended,
                    marked, consumed, t2, last >>

\* mutant of DecodeStart: the sample rate is not looked at
DecodeStart_Unchecked ==
    /\ pc = "start"
    /\ pc' = "rising"
    /\ t' = 0
    /\ out' = << >>
    /\ UNCHANGED << samplerate, TEcnt, Block_Init, Header_Completed, Bitcnt,
                    BitString, KeyLoq, ssBlock, n, prevN, word, attempt, ended,
                    marked, consumed, t2, last >>

\* decode() up to its first wait: it raises without a sample rate
DecodeStart ==
    /\ pc = "start"
    /\ pc' = IF samplerate = None THEN "error" ELSE "rising"
    /\ t' = 0
    /\ out' = << >>
    /\ UNCHANGED << samplerate, TEcnt, Block_Init, Header_Completed, Bitcnt,
                    BitString, KeyLoq, ssBlock, n, prevN, word, attempt, ended,
                    marked, consumed, t2, last >>

\* the fields of self after a handler has run, and the history of the starts
Store(s) ==
    /\ TEcnt' = s.TEcnt
    /\ Block_Init' = s.Block_Init
    /\ Header_Completed' = s.Header_Completed
    /\ Bitcnt' = s.Bitcnt
    /\ BitString' = s.BitString
    /\ KeyLoq' = s.KeyLoq
    /\ ssBlock' = s.ssBlock
    /\ n' = s.n
    /\ prevN' = s.prevN
    /\ out' = s.out
    /\ last' = LastStart(last, s.out, s.ssBlock)

\* the rising edge that anchors the first block
RisingEdge ==
    /\ pc = "rising"
    /\ Store([Wait(Self) EXCEPT !.prevN = samplenum])
    /\ pc' = "edge"
    /\ UNCHANGED << samplerate, t, word, attempt, ended, marked, consumed, t2 >>

\* the head of an iteration of the loop: the wait and self.n = self.samplenum
Edge(s) == [Wait(s) EXCEPT !.n = samplenum]

\* the end of an iteration that ran a preamble handler
EndPreamble(s) == [s EXCEPT !.prevN = samplenum]

\* the end of an iteration that ran the data handler
EndData(s) == [s EXCEPT !.Bitcnt = @ + 1, !.prevN = samplenum]

\* one iteration of the loop while the header is not completed
LoopPreamble ==
    /\ pc = "edge"
    /\ Header_Completed = 0
    /\ \E d \in AnyDurations :
        /\ d \in PreambleDurations => TEcnt < MaxTE
        /\ (d \notin PreambleDurations /\ TEcnt = 0) => -ssBlock.edge < MaxBack
        /\ LET tt == Duration(d)
               s == Decode_Preable([Edge(Self) EXCEPT !.TEcnt = @ + 1], tt)
               sign == \E i \in 1..Len(s.out) : s.out[i].text = << "Preamble" >>
           IN  /\ t' = tt
               /\ Store(EndPreamble(s))
               /\ IF s.Header_Completed = 1
                  THEN word' \in 1..Len(Words) /\ attempt' = attempt /\ marked' = marked
                  ELSE /\ word' = 1
                       /\ attempt' =
                            IF Fits(tt) # {}
                            THEN [pulses |-> (IF TEcnt = 0 THEN 0 ELSE attempt.pulses) + 1,
                                  fits |-> (IF TEcnt = 0 THEN Variants ELSE attempt.fits)
                                              \cap Fits(tt)]
                            ELSE Attempt0
                       /\ marked' = (s.TEcnt # 0 /\ (sign \/ (TEcnt # 0 /\ marked)))
    /\ pc' = "edge"
    /\ consumed' = 0
    /\ t2' = 0
    /\ UNCHANGED << samplerate, ended >>

\* one iteration of the loop in the data portion, up to the wait for the second
\* half of the bit if there is one
LoopData ==
    /\ pc = "edge"
    /\ Header_Completed = 1
    /\ \E d \in { BitDuration(Words[word][Bitcnt]) } \cup CorruptDurations :
        LET tt == Duration(d)
        IN  /\ t' = tt
            /\ IF ~Valid_Bit(tt)
               THEN LET s == Decode_DataPortion(LogicalBit_Invalid(Edge(Self)),
                                                Bitcnt, << "0" >>)
                    IN  /\ Store(EndData(s))
                        /\ pc' = "edge"
                        /\ ended' = Ended(ended)
               ELSE IF Bitcnt = 65
               THEN LET s == Decode_DataPortion(
                                 LogicalBit_Valid(LastBitEnd(Start_Block(Edge(Self))), tt),
                                 Bitcnt, LogicalBit(tt))
                    IN  /\ Store(EndData(s))
                        /\ pc' = "edge"
                        /\ ended' = Ended(ended)
               ELSE /\ Store(Start_Block(Edge(Self)))
                    /\ pc' = "half"
                    /\ ended' = ended
    /\ attempt' = Attempt0
    /\ marked' = FALSE
    /\ consumed' = consumed + 1
    /\ t2' = 0
    /\ UNCHANGED << samplerate, word >>

\* the edge that ends the bit arrives: the rest of the iteration
ResumeBit ==
    /\ pc = "half"
    /\ \E d2 \in SecondHalfDurations :
        LET tt2 == Duration(d2)
            s == Decode_DataPortion(LogicalBit_Valid(SecondHalf(Self, tt2), t),
                                    Bitcnt, LogicalBit(t))
        IN  /\ t2' = tt2
            /\ Store(EndData(s))
    /\ pc' = "edge"
    /\ consumed' = consumed + 1
    /\ UNCHANGED << samplerate, t, word, attempt, ended, marked >>

Next ==
    \/ Metadata
    \/ DecodeStart
    \/ RisingEdge
    \/ LoopPreamble
    \/ LoopData
    \/ ResumeBit

Spec == Init /\ [][Next]_vars

\* ------------------------------------------------ Bin2Hex on its own

\* all strings of "0" and "1" of length n
RECURSIVE BitStrings(_)
BitStrings(k) ==
    IF k = 0 THEN { << >> }
    ELSE { << b >> \o s : b \in { "0", "1" }, s \in BitStrings(k - 1) }

\* a string of n characters c
RECURSIVE Repeat(_, _)
Repeat(c, k) == IF k <= 0 THEN << >> ELSE << c >> \o Repeat(c, k - 1)

\* The inputs of Bin2Hex: every string of 1..MaxBits bits, each of them after 28
\* zero bits and before 24 zero bits (8 hex digits when it starts with 1), and
\* the longest strings of ones whose value is below 2^31.
HexInputs ==
    LET short == UNION { BitStrings(k) : k \in 1..MaxBits }
    IN  short
        \cup { Repeat("0", 28) \o s : s \in short }
        \cup { s \o Repeat("0", 24) : s \in short }
        \cup { Repeat("1", k) : k \in 27..30 }

InitHex ==
    /\ pc = "hex"
    /\ samplerate = << SampleRate >>
    /\ TEcnt = 0
    /\ Block_Init = 0
    /\ Header_Completed = 1
    /\ Bitcnt = 31
    /\ BitString \in HexInputs
    /\ KeyLoq = KeyLoq0
    /\ ssBlock = Sample(0, 0)
    /\ n = Sample(0, 0)
    /\ prevN = Sample(0, 0)
    /\ t = 0
    /\ out = << >>
    /\ word = 1
    /\ attempt = Attempt0
    /\ ended = 0
    /\ marked = FALSE
    /\ consumed = 0
    /\ t2 = 0
    /\ last = Last0

\* self.KeyLoq["Encrypted"] = self.Bin2Hex()
ApplyBin2Hex ==
    /\ pc = "hex"
    /\ KeyLoq' = [KeyLoq EXCEPT !["Encrypted"] = Bin2Hex(BitString)]
    /\ pc' = "hexdone"
    /\ UNCHANGED << samplerate, TEcnt, Block_Init, Header_Completed, Bitcnt,
                    BitString, ssBlock, n, prevN, t, out, word, attempt, ended,
                    marked, consumed, t2, last >>

NextHex == ApplyBin2Hex

SpecHex == InitHex /\ [][NextHex]_vars

\* ================================================================ claims

\* ---- notions the claims use, stated without the decoder's operators

\* the value of a string of "0" and "1", most significant bit first (below 2^31)
RECURSIVE BinValue(_)
BinValue(s) ==
    IF s = << >> THEN 0
    ELSE 2 * BinValue(SubSeq(s, 1, Len(s) - 1)) + (IF s[Len(s)] = "1" THEN 1 ELSE 0)

HexChars == { "0", "1", "2", "3", "4", "5", "6", "7", "8", "9", "A", "B", "C", "D", "E", "F" }

HexCharValue(c) ==
    CASE c = "0" -> 0 [] c = "1" -> 1 [] c = "2" -> 2 [] c = "3" -> 3
      [] c = "4" -> 4 [] c = "5" -> 5 [] c = "6" -> 6 [] c = "7" -> 7
      [] c = "8" -> 8 [] c = "9" -> 9 [] c = "A" -> 10 [] c = "B" -> 11
      [] c = "C" -> 12 [] c = "D" -> 13 [] c = "E" -> 14 [] c = "F" -> 15

HexCharOf(d) == CHOOSE c \in HexChars : HexCharValue(c) = d

\* the value of a string of hex digits (below 2^31)
RECURSIVE HexValue(_)
HexValue(h) ==
    IF h = << >> THEN 0
    ELSE 16 * HexValue(SubSeq(h, 1, Len(h) - 1)) + HexCharValue(h[Len(h)])

\* the number of hex digits of v >= 0 (one for 0)
RECURSIVE NumHexDigits(_)
NumHexDigits(v) == IF v < 16 THEN 1 ELSE 1 + NumHexDigits(v \div 16)

Max(a, b) == IF a >= b THEN a ELSE b

\* "0x" and the hex digits of v >= 0, at least 7 of them
RECURSIVE HexOf(_, _)
HexOf(v, k) ==
    IF k <= 0 THEN << >>
    ELSE HexOf(v \div 16, k - 1) \o << HexCharOf(v % 16) >>

HexText(v) == << "0", "x" >> \o HexOf(v, Max(7, NumHexDigits(v)))

\* the value of bits lo .. lo+n-1 of code word w, the first of them least significant
RECURSIVE FieldValue(_, _, _)
FieldValue(w, lo, k) ==
    IF k = 0 THEN 0 ELSE Words[w][lo] + 2 * FieldValue(w, lo + 1, k - 1)

BitText(b) == IF b = 1 THEN << "1" >> ELSE << "0" >>

\* the texts of the annotations of class a emitted in the last step
Texts(a) == { out[i].text : i \in { j \in 1..Len(out) : out[j].ann = a } }

\* the same for the step being taken
TextsNext(a) == { out'[i].text : i \in { j \in 1..Len(out') : out'[j].ann = a } }

BlockNames == { << "Encrypted Portion" >>, << "Serial Number" >>, << "Button Code" >>,
                << "V-Low" >>, << "RPT" >> }

\* the step just taken consumed bit 65 with a valid duration
CompletedWord ==
    /\ pc = "edge"
    /\ Len(out) = 3
    /\ out[1].ann = Ann.LOGICAL_BIT /\ out[1].text[1] = "Bit "
    /\ out[2].text = << "RPT" >>

\* the step being taken processes an edge of invalid duration in the data portion
InvalidBitStep == pc = "edge" /\ Header_Completed = 1 /\ pc' = "edge" /\ ~Valid_Bit(t')

\* the step being taken processes an edge while the header is not completed
PreambleStep == pc = "edge" /\ Header_Completed = 0 /\ pc' = "edge"

\* ---- C1
\* C1, as amended: from reset, a preamble, a header and the 66 valid bits of word 1
\* (bits 0-31 alternating from 1, serial 0, buttons 1,0,1,0, V-Low 1, RPT 0) yield
\* Encrypted "0x55555555" (eight digits), Serial-Number "0x0000000", S3 "1",
\* S0 "0", S1 "1", S2 "0", "Battery Low" and "No".
C1_Record(enc) ==
    [k \in DOMAIN KeyLoq0 |->
        CASE k = "Encrypted" -> enc
          [] k = "Serial-Number" -> << "0", "x", "0", "0", "0", "0", "0", "0", "0" >>
          [] k = "S3" -> << "1" >> [] k = "S0" -> << "0" >>
          [] k = "S1" -> << "1" >> [] k = "S2" -> << "0" >>
          [] k = "V-Low" -> << "Battery Low" >>
          [] k = "RPT" -> << "No" >>]

\* the first data portion since reset ended, completing word 1 with 66 valid bits
C1_FirstWordDone == CompletedWord /\ ended = 1 /\ word = 1

\* C1 (amended): the record after the scenario, with Encrypted "0x55555555"
C1_EndToEnd ==
    C1_FirstWordDone =>
        KeyLoq = C1_Record(<< "0", "x", "5", "5", "5", "5", "5", "5", "5", "5" >>)

\* C1 as claimed: the same scenario yields Encrypted "0x5555555" (seven digits)
C1_AsClaimed ==
    C1_FirstWordDone =>
        KeyLoq = C1_Record(<< "0", "x", "5", "5", "5", "5", "5", "5", "5" >>)

C1_Witness ==
    /\ C1_FirstWordDone
    /\ Header_Completed = 0
    /\ Bitcnt = 0
    /\ KeyLoq["Encrypted"] = << "0", "x", "5", "5", "5", "5", "5", "5", "5", "5" >>

\* ---- C2
\* C2: whatever came before, the Encrypted value finalized at bit 31 is the sum of
\* b_i * 2^i over the bits 0..31 of this data portion, and the Serial-Number value
\* finalized at bit 59 is the sum of b_(32+i) * 2^i over i in 0..27.
C2_FieldValues ==
    /\ (pc = "edge" /\ Header_Completed = 1 /\ Bitcnt = 32)
          => KeyLoq["Encrypted"] = HexText(FieldValue(word, 0, 32))
    /\ (pc = "edge" /\ Header_Completed = 1 /\ Bitcnt = 60)
          => KeyLoq["Serial-Number"] = HexText(FieldValue(word, 32, 28))

\* ---- C3
\* C3: an invalid duration at any bit position of the data portion leaves the
\* header-completed flag cleared, bitCount 0, the block-start flag cleared and the
\* accumulation string empty.
C3_InvalidBitResets ==
    [][InvalidBitStep =>
          /\ Header_Completed' = 0
          /\ Bitcnt' = 0
          /\ Block_Init' = 0
          /\ BitString' = << >>]_vars

\* ---- C4
\* C4: an invalid duration at any bit position of the data portion emits only the
\* "Invalid Bit" annotation and leaves every field of the code-word record as it was.
C4_InvalidBitFinalizesNothing ==
    [][InvalidBitStep =>
          /\ Len(out') = 1
          /\ out'[1].ann = Ann.LOGICAL_BIT
          /\ out'[1].text = << ">>> Invalid Bit <<< " >>
          /\ KeyLoq' = KeyLoq]_vars

\* ---- C5
\* C5: after 23 pulses in the standard window, or 45 pulses in the short window,
\* counted from teCount = 0, a header gap leaves the header completed and teCount 0.
C5_PreambleThenHeader ==
    [][(/\ PreambleStep
        /\ in_header(t')
        /\ \/ attempt.pulses = 23 /\ "std" \in attempt.fits
           \/ attempt.pulses = 45 /\ "short" \in attempt.fits)
          => (Header_Completed' = 1 /\ TEcnt' = 0)]_vars

C5_Witness ==
    /\ pc = "edge"
    /\ Header_Completed = 1
    /\ TEcnt = 0
    /\ Bitcnt = 0
    /\ in_header(t)
    /\ attempt = [pulses |-> 45, fits |-> { "short" }]

\* ---- C6
\* C6: a header gap is accepted only after exactly 23 pulses that are all in the
\* standard window or exactly 45 pulses that are all in the short window.
C6_HeaderOnlyAfterItsVariant ==
    [][(Header_Completed = 0 /\ Header_Completed' = 1)
          => \/ attempt.pulses = 23 /\ "std" \in attempt.fits
             \/ attempt.pulses = 45 /\ "short" \in attempt.fits]_vars

\* ---- C7
\* C7: while the header is not completed, an edge whose duration is in none of the
\* short, standard and header windows leaves teCount 0 and the block start cleared.
C7_NoWindowResets ==
    [][(PreambleStep /\ ~in_short_te(t') /\ ~in_std_te(t') /\ ~in_header(t'))
          => (TEcnt' = 0 /\ Block_Init' = 0)]_vars

C7_Witness ==
    /\ pc = "edge"
    /\ Header_Completed = 0
    /\ t = Pause
    /\ out = << >>
    /\ TEcnt = 0
    /\ Block_Init = 0

\* ---- C8
\* C8: in a data portion bitCount goes 0, 1, ..., 65, one step per decoded bit, and
\* returns to 0 when bit 65 is consumed and only then from 65; the Repeat field is
\* the last one finalized in that step, which also returns to the preamble phase.
RptFinalizedNext ==
    /\ Len(out') >= 2
    /\ out'[Len(out') - 1].ann = Ann.CODE_WORD
    /\ out'[Len(out') - 1].text = << "RPT" >>
    /\ out'[Len(out')].ann = Ann.FIXED_DATA
    /\ out'[Len(out')].text = KeyLoq'["RPT"]
    /\ KeyLoq'["RPT"] \in { << "No" >>, << "Yes" >> }

C8_BitCountSequence ==
    [][/\ Bitcnt' \in 0..65
       /\ (Header_Completed = 0 /\ Header_Completed' = 1) => Bitcnt' = 0
       /\ (pc = "edge" /\ Header_Completed = 1 /\ Valid_Bit(t') /\ Bitcnt < 65)
             => (pc' = "half" /\ Bitcnt' = Bitcnt /\ Header_Completed' = 1)
       /\ pc = "half"
             => (pc' = "edge" /\ Bitcnt < 65 /\ Bitcnt' = Bitcnt + 1 /\ Header_Completed' = 1)
       /\ (pc = "edge" /\ Header_Completed = 1 /\ Valid_Bit(t') /\ Bitcnt = 65)
             => /\ Bitcnt' = 0
                /\ Header_Completed' = 0
                /\ RptFinalizedNext
                /\ KeyLoq'["RPT"] = (IF Words[word][65] = 1 THEN << "Yes" >> ELSE << "No" >>)
       /\ (Bitcnt = 65 /\ Bitcnt' # 65)
             => (Bitcnt' = 0 /\ Header_Completed' = 0 /\ RptFinalizedNext)]_vars

C8_Witness ==
    /\ CompletedWord
    /\ word = 2
    /\ Bitcnt = 0
    /\ Header_Completed = 0
    /\ out[3].text = << "Yes" >>
    /\ KeyLoq["RPT"] = << "Yes" >>

\* ---- C9
\* C9: Bin2Hex of a bit string of value v is "0x" and max(7, number of hex digits
\* of v) upper-case hex digits of value v; 32 zero bits give "0x0000000" and a
\* 32-bit field of value 1 gives "0x0000001".
C9_HexFormat ==
    pc = "hexdone" =>
        LET h == KeyLoq["Encrypted"]
            v == BinValue(BitString)
            digits == SubSeq(h, 3, Len(h))
        IN  /\ Len(h) >= 2
            /\ SubSeq(h, 1, 2) = << "0", "x" >>
            /\ Len(digits) = Max(7, NumHexDigits(v))
            /\ \A i \in 1..Len(digits) : digits[i] \in HexChars
            /\ HexValue(digits) = v
            /\ BitString = Repeat("0", 32)
                  => h = << "0", "x", "0", "0", "0", "0", "0", "0", "0" >>
            /\ BitString = Repeat("0", 31) \o << "1" >>
                  => h = << "0", "x", "0", "0", "0", "0", "0", "0", "1" >>

C9_Witness ==
    /\ pc = "hexdone"
    /\ BitString = Repeat("0", 31) \o << "1" >>
    /\ KeyLoq["Encrypted"] = << "0", "x", "0", "0", "0", "0", "0", "0", "1" >>

\* ---- C10
\* C10: the valid bits 60, 61, 62, 63 are assigned to S3, S0, S1, S2 in this order,
\* each field with the value of its own bit and emitted in the step that decodes
\* it; the "Button Code" block annotation is emitted at bit 63 only.
ButtonField(p) == CASE p = 60 -> "S3" [] p = 61 -> "S0" [] p = 62 -> "S1" [] p = 63 -> "S2"

ButtonLabel(p) ==
    CASE p = 60 -> "S3 = " [] p = 61 -> "S0 = " [] p = 62 -> "S1 = " [] p = 63 -> "S2 = "

C10_ButtonOrder ==
    [][/\ (pc = "half" /\ Bitcnt \in 60..63)
             => LET b == BitText(Words[word][Bitcnt])
                IN  /\ KeyLoq' = [KeyLoq EXCEPT ![ButtonField(Bitcnt)] = b]
                    /\ TextsNext(Ann.FIXED_DATA) = { << ButtonLabel(Bitcnt) >> \o b }
                    /\ out'[Len(out')].ann = Ann.FIXED_DATA
       /\ << "Button Code" >> \in TextsNext(Ann.CODE_WORD)
             <=> (pc = "half" /\ Bitcnt = 63)]_vars

C10_Witness ==
    /\ pc = "edge"
    /\ Header_Completed = 1
    /\ Bitcnt = 64
    /\ << "Button Code" >> \in Texts(Ann.CODE_WORD)
    /\ << "S2 = ", "0" >> \in Texts(Ann.FIXED_DATA)
    /\ KeyLoq["S3"] = << "1" >>
    /\ KeyLoq["S0"] = << "0" >>
    /\ KeyLoq["S1"] = << "1" >>
    /\ KeyLoq["S2"] = << "0" >>

\* ---- C11
\* the value of Bitcnt from which field f of the record has been written in the
\* current data portion
FieldFrom(f) ==
    CASE f = "Encrypted" -> 32 [] f = "Serial-Number" -> 60 [] f = "S3" -> 61
      [] f = "S0" -> 62 [] f = "S1" -> 63 [] f = "S2" -> 64 [] f = "V-Low" -> 65
      [] f = "RPT" -> 66

\* C11: the record is fresh at the start of each data portion: when the header has
\* just been accepted every field is empty, and during the data portion the fields
\* whose bits have not been decoded yet are empty, so that no record mixes fields
\* of two transmissions.
C11_FreshRecord ==
    Header_Completed = 1 =>
        \A f \in DOMAIN KeyLoq : Bitcnt < FieldFrom(f) => KeyLoq[f] = << >>

\* ---- C12
\* C12: decode() started without a sample rate ends in the error at once: it emits
\* no annotation, changes no counter, flag, accumulation or record field, and
\* takes no step (requests no edge) afterwards.
C12_NoSamplerateAborts ==
    [][/\ (pc = "start" /\ samplerate = None /\ pc' # "start")
             => /\ pc' = "error"
                /\ out' = << >>
                /\ UNCHANGED << samplerate, TEcnt, Block_Init, Header_Completed,
                                Bitcnt, BitString, KeyLoq, ssBlock, n, prevN >>
       /\ pc # "error"]_vars

C12_Witness ==
    /\ pc = "error"
    /\ samplerate = None
    /\ out = << >>
    /\ TEcnt = 0
    /\ Header_Completed = 0
    /\ Bitcnt = 0
    /\ BitString = << >>
    /\ KeyLoq = KeyLoq0

\* ---- C13
\* the edges at which the annotations o start
StartEdges(o) == [i \in 1..Len(o) |-> o[i].ss.edge]

NonDecreasing(e) == \A i \in 1..Len(e) : \A j \in 1..Len(e) : (i < j) => e[i] <= e[j]

\* C13 as claimed: no annotation starts at an earlier sample than an annotation
\* emitted before it, in the same step or in the step before.
C13_StartOrder ==
    [][/\ NonDecreasing(StartEdges(out'))
       /\ (out # << >> /\ out' # << >> /\ pc' # "start")
             => out[Len(out)].ss.edge - 1 <= out'[1].ss.edge]_vars

\* C13, as amended: within each annotation row (bits: TE and logical bit; code
\* word: the block annotations; data: the data annotations) no annotation starts
\* at an earlier sample than one emitted before it in that row, over the whole
\* run; every annotation starts at an edge, and never after the previous edge.
C13_RowOrder ==
    [][\A r \in Rows :
          /\ NonDecreasing(<< last[r] - 1 >> \o StartEdges(OfRow(out', r)))
          /\ \A i \in 1..Len(out') : out'[i].ss.plus = 0 /\ out'[i].ss.edge < 0]_vars

\* bit 31 has just been decoded: its bit annotation starts two edges back, and the
\* block annotation and the data annotation emitted after it 64 edges back
C13_Witness ==
    /\ pc = "edge"
    /\ Header_Completed = 1
    /\ Bitcnt = 32
    /\ Len(out) = 3
    /\ out[1].ann = Ann.LOGICAL_BIT /\ out[1].ss = Sample(-2, 0)
    /\ out[2].text = << "Encrypted Portion" >> /\ out[2].ss = Sample(-64, 0)
    /\ out[3].ann = Ann.ENCRYP_DATA /\ out[3].ss = Sample(-64, 0)
    /\ last = [r \in Rows |-> IF r = "bits" THEN -2 ELSE -64]

\* ---- C14
\* C14: an edge processed while the header is not completed, of a duration in the
\* short or in the standard window, emits at most one TE annotation, whatever the
\* value of teCount.
C14_OneTEPerEdge ==
    [][(PreambleStep /\ (in_short_te(t') \/ in_std_te(t')))
          => Cardinality({ i \in 1..Len(out') : out'[i].ann = Ann.TE }) <= 1]_vars

\* ---- C15
\* C15: every step that accepts a header is preceded, in the same preamble attempt
\* (since teCount was last 0), by a step that emitted "Preamble".
C15_PreambleBeforeHeader ==
    [][(Header_Completed = 0 /\ Header_Completed' = 1) => marked]_vars

\* ---- C16
\* C16: the edge after the one that reached the preamble threshold (the one that
\* emitted "Preamble") either is accepted as the header or resets teCount to 0 and
\* clears the block start; teCount never exceeds the short threshold plus one.
C16_ThresholdThenHeaderOrReset ==
    [][/\ (PreambleStep /\ << "Preamble" >> \in Texts(Ann.CODE_WORD))
             => \/ Header_Completed' = 1
                \/ TEcnt' = 0 /\ Block_Init' = 0
       /\ TEcnt' <= PREAMBLE_TE_Count_Short + 1]_vars

\* ---- C17
\* C17: a valid first half at bit 0..64 makes the decoder wait for exactly one
\* further edge, which ends the bit annotation; at bit 65 it waits for none and the
\* bit annotation ends 8 samples after the current edge; a complete data portion
\* has consumed 131 edges after the header edge, and the edge after it is handled
\* as a preamble edge.
C17_EdgesPerBit ==
    [][/\ (pc = "edge" /\ Header_Completed = 1 /\ Valid_Bit(t') /\ Bitcnt <= 64)
             => /\ pc' = "half"
                /\ out' = << >>
                /\ consumed' = consumed + 1
       /\ pc = "half"
             => /\ pc' = "edge"
                /\ consumed' = consumed + 1
                /\ consumed' = 2 * Bitcnt'
                /\ out'[1].ann = Ann.LOGICAL_BIT
                /\ out'[1].ss = Sample(-2, 0)
                /\ out'[1].es = Sample(0, 0)
       /\ (pc = "edge" /\ Header_Completed = 1 /\ Valid_Bit(t') /\ Bitcnt = 65)
             => /\ pc' = "edge"
                /\ consumed' = consumed + 1
                /\ consumed' = 131
                /\ out'[1].ann = Ann.LOGICAL_BIT
                /\ out'[1].ss = Sample(-1, 0)
                /\ out'[1].es = Sample(0, 8)
                /\ Header_Completed' = 0
       /\ (pc = "edge" /\ consumed = 131)
             => /\ Header_Completed = 0
                /\ pc' = "edge"
                /\ consumed' = 0
                /\ Header_Completed' = 0
                /\ Bitcnt' = 0
                /\ TEcnt' = (IF in_short_te(t') \/ in_std_te(t') THEN 1 ELSE 0)]_vars

C17_Witness ==
    /\ CompletedWord
    /\ consumed = 131
    /\ out[1].es = Sample(0, 8)
    /\ n = Sample(0, 8)
    /\ prevN = Sample(0, 0)
    /\ Header_Completed = 0
    /\ Bitcnt = 0

\* ---- C18
\* C18: no duration is in two of the short preamble window, the standard (bit 1)
\* window, the bit 0 window and the header window.
C18_WindowsDisjoint ==
    LET w == << in_short_te(t), in_std_te(t), in_bit0(t), in_header(t) >>
    IN  \A i \in 1..4 : \A j \in 1..4 : (i < j) => ~(w[i] /\ w[j])

\* ---- C19
\* the outcome of the step that ends a bit when the second half lasts tt2
C19_Outcome(tt2) ==
    Decode_DataPortion(LogicalBit_Valid(SecondHalf(Self, tt2), t), Bitcnt, LogicalBit(t))

\* C19: the step that ends a bit has the same outcome (bit, fields, counters,
\* annotations) whatever the second half lasts, the first half being the same; the
\* bit is the one the first half encodes, bitCount advances by one, and no second
\* half, in a window or not, makes the bit invalid.
C19_SecondHalfIgnored ==
    [][pc = "half"
          => /\ \A d1 \in SecondHalfDurations : \A d2 \in SecondHalfDurations :
                    C19_Outcome(Duration(d1)) = C19_Outcome(Duration(d2))
             /\ out'[1].ann = Ann.LOGICAL_BIT
             /\ out'[1].text = << "Bit " >> \o BitText(Words[word][Bitcnt])
             /\ Bitcnt' = Bitcnt + 1
             /\ Header_Completed' = 1
             /\ pc' = "edge"]_vars

\* bit 31 of word 1 decoded after a second half that is in no window
C19_Witness ==
    /\ pc = "edge"
    /\ t2 = Glitch
    /\ ~in_short_te(t2) /\ ~in_std_te(t2) /\ ~in_bit0(t2) /\ ~in_header(t2)
    /\ Header_Completed = 1
    /\ Bitcnt = 32
    /\ word = 1
    /\ out[1].text = << "Bit ", "0" >>
    /\ KeyLoq["Encrypted"] = << "0", "x", "5", "5", "5", "5", "5", "5", "5", "5" >>

\* ---- C20
\* C20: between two iterations of the loop bitCount is in 0..65, teCount is 0 when
\* the header is completed, bitCount is 0 when it is not, and the two counters are
\* never both non-zero.
C20_CountersExclusive ==
    pc = "edge" =>
        /\ Bitcnt \in 0..65
        /\ Header_Completed = 1 => TEcnt = 0
        /\ Header_Completed = 0 => Bitcnt = 0
        /\ ~(TEcnt # 0 /\ Bitcnt # 0)

C20_Witness ==
    /\ pc = "edge"
    /\ Header_Completed = 1
    /\ Bitcnt = 65
    /\ TEcnt = 0
    /\ ended = 1


====
